---- MODULE Spec2Model ----
(***************************************************************************)
(* Model of compressed_visualization_transport/occupancy_grid.py: the      *)
(* mapping between occupancy-grid cells and pixels, the resolution         *)
(* arithmetic, and the scale / compress pipelines.                         *)
(*                                                                         *)
(* The state machine is a caller that makes one call at a time: an action  *)
(* per function draws the arguments, runs the function and records what it *)
(* returned or raised, and Return hands control back.                      *)
(*                                                                         *)
(* _occupancy_to_bytes and _bytes_to_occupancy are generator functions,    *)
(* and image_to_occupancy_grid_data returns the generator of the latter:   *)
(* the call returns a generator that has computed nothing.  The caller     *)
(* resumes it an element at a time, and each element is computed from the  *)
(* data and the configuration as they are when it is asked for; between    *)
(* two elements the caller can write to either.  ret is then the generator *)
(* with the objects it refers to, yielded the elements the caller has      *)
(* received so far, and writes how often the caller has written to the     *)
(* data or the configuration since the call.                               *)
(*                                                                         *)
(* Representations.                                                        *)
(*  - A pixel value (Python int, up to 32 bits) is a Word: its four        *)
(*    base-256 digits, most significant first.  255 << 24 does not fit the *)
(*    model checker's integers, the digits do.                             *)
(*  - A byte string is a sequence of integers 0..255.                      *)
(*  - A Python float is an IEEE double [m, e] of value m * 2^e: m is the   *)
(*    53-bit mantissa as two 27-bit limbs <<high, low>>, or <<0, 0>> for   *)
(*    0.0.  Division and multiplication round to nearest, ties to even,    *)
(*    as the hardware does; the values here are far from overflow,         *)
(*    underflow, infinities and NaN.  A float literal such as 0.1 is the   *)
(*    double nearest to 1/10 and is written Dec(<<1, 10>>).                *)
(*  - None is the record NoneValue; a raised exception is a record of      *)
(*    class "Exception".                                                   *)
(***************************************************************************)
EXTENDS Integers, Sequences, FiniteSets, TLC

VARIABLES pc, op, args, ret, compressor, yielded, writes

vars == <<pc, op, args, ret, compressor, yielded, writes>>

(***************************************************************************)
(* Bounds of the model.                                                    *)
(***************************************************************************)
\* largest grid width and height
MaxDim == 2
\* largest number of cells in a grid's data
MaxCells == 4
\* largest number of pixel values handed to _bytes_to_occupancy directly
MaxPixels == 2

\* most writes of the caller to the data or the configuration of a
\* generator it holds
MaxWrites == 1

(***************************************************************************)
(* Program constants.                                                      *)
(***************************************************************************)
_DEFAULT_COLOR_UNKNOWN == 128
_DEFAULT_COLOR_OCCUPIED == 0
_DEFAULT_COLOR_FREE == 1

NoneValue == [class |-> "NoneType"]

IsNone(x) == x.class = "NoneType"

Raise(msg) == [class |-> "Exception", message |-> msg]

Raised(x) == x.class = "Exception"

(***************************************************************************)
(* Python integers as Words.                                               *)
(***************************************************************************)
\* the Word of a Python int 0 <= n < 256
IntWord(n) == <<0, 0, 0, n>>

\* (word >> (i * 8)) & 0xff
WordByte(word, i) == word[4 - i]

(***************************************************************************)
(* Python floats: IEEE 754 doubles.                                        *)
(***************************************************************************)
Limb == 2^27

\* two-limb naturals below 2^54
PLess(a, b) == a[1] < b[1] \/ (a[1] = b[1] /\ a[2] < b[2])

\* a * k for 0 <= k <= 16
PTimes(a, k) == <<a[1] * k + (a[2] * k) \div Limb, (a[2] * k) % Limb>>

\* a \div 2^s
PShift(a, s) ==
  <<a[1] \div 2^s, (a[1] % 2^s) * (Limb \div 2^s) + a[2] \div 2^s>>

PSub(a, b) ==
  IF a[2] >= b[2] THEN <<a[1] - b[1], a[2] - b[2]>>
  ELSE <<a[1] - b[1] - 1, a[2] + Limb - b[2]>>

PInc(a) == IF a[2] + 1 = Limb THEN <<a[1] + 1, 0>> ELSE <<a[1], a[2] + 1>>

FloatZero == [m |-> <<0, 0>>, e |-> 0]

IsZero(x) == x.m = <<0, 0>>

\* round a mantissa with one extra low bit (q, 2^53 <= q < 2^54, of value
\* q * 2^e) to nearest, ties to even; sticky says bits were lost below q
RoundToDouble(q, sticky, e) ==
  LET half == PShift(q, 1)
      up == q[2] % 2 = 1 /\ (sticky \/ half[2] % 2 = 1)
      m == IF up THEN PInc(half) ELSE half
  IN IF m = <<Limb \div 2, 0>>
     THEN [m |-> <<Limb \div 4, 0>>, e |-> e + 2]
     ELSE [m |-> m, e |-> e + 1]

\* n more hexadecimal digits of the quotient r / d, r < d, by long
\* division: <<quotient, remainder>>
RECURSIVE DivDigits(_, _, _, _)
DivDigits(q, r, d, n) ==
  IF n = 0 THEN <<q, r>>
  ELSE LET r16 == PTimes(r, 16)
           \* the digit, or one less, from the high limbs alone
           low == r16[1] \div (d[1] + 1)
           digit == IF PLess(r16, PTimes(d, low + 1)) THEN low ELSE low + 1
           q16 == PTimes(q, 16)
       IN DivDigits(<<q16[1], q16[2] + digit>>,
                    PSub(r16, PTimes(d, digit)), d, n - 1)

\* x / y for floats, y > 0
FloatDiv(x, y) ==
  IF IsZero(x) THEN FloatZero
  ELSE LET ge == ~PLess(x.m, y.m)
           \* the quotient of the mantissas to 56 binary places
           qr == IF ge THEN DivDigits(<<0, 1>>, PSub(x.m, y.m), y.m, 14)
                 ELSE DivDigits(<<0, 0>>, x.m, y.m, 14)
           drop == IF ge THEN 3 ELSE 2
       IN RoundToDouble(PShift(qr[1], drop),
                        qr[1][2] % 2^drop # 0 \/ qr[2] # <<0, 0>>,
                        x.e - y.e - 56 + drop)

\* the six base-512 digits of a mantissa, least significant first
Digits(a) ==
  <<a[2] % 512, (a[2] \div 512) % 512, a[2] \div 262144,
    a[1] % 512, (a[1] \div 512) % 512, a[1] \div 262144>>

\* column k (from 0) of the schoolbook product of two digit strings
Column(a, b, k) ==
  LET Term(i) == IF k + 2 - i \in 1..6 THEN a[i] * b[k + 2 - i] ELSE 0
  IN Term(1) + Term(2) + Term(3) + Term(4) + Term(5) + Term(6)

\* the twelve base-512 digits of the product, least significant first
RECURSIVE ProductDigits(_, _, _, _)
ProductDigits(a, b, k, carry) ==
  IF k = 12 THEN <<>>
  ELSE LET sum == Column(a, b, k) + carry
       IN <<sum % 512>> \o ProductDigits(a, b, k + 1, sum \div 512)

\* x * y for floats
FloatMul(x, y) ==
  IF IsZero(x) \/ IsZero(y) THEN FloatZero
  ELSE LET d == ProductDigits(Digits(x.m), Digits(y.m), 0, 0)
           L(j) == d[3 * j + 1] + 512 * d[3 * j + 2] + 262144 * d[3 * j + 3]
           \* the product is L(3) L(2) L(1) L(0) in 27-bit limbs, of 105 or
           \* 106 bits; keep its top 54
           big == L(3) >= Limb \div 8
           q == IF big
                THEN <<4 * L(3) + L(2) \div (Limb \div 4),
                       ((4 * L(2)) % Limb) + L(1) \div (Limb \div 4)>>
                ELSE <<8 * L(3) + L(2) \div (Limb \div 8),
                       ((8 * L(2)) % Limb) + L(1) \div (Limb \div 8)>>
           sticky == IF big
                     THEN L(1) % (Limb \div 4) # 0 \/ L(0) # 0
                     ELSE L(1) % (Limb \div 8) # 0 \/ L(0) # 0
       IN RoundToDouble(q, sticky, x.e + y.e + (IF big THEN 52 ELSE 51))

\* the number of bits of an int 0 < n < 2^26
BitLength(n) == CHOOSE k \in 1..26 : 2^(k - 1) <= n /\ n < 2^k

\* float(n) for an int 0 <= n < 2^26
FloatOfInt(n) ==
  IF n = 0 THEN FloatZero
  ELSE [m |-> <<n * 2^(26 - BitLength(n)), 0>>, e |-> BitLength(n) - 53]

\* x < y for floats x, y >= 0
FloatLess(x, y) ==
  IF IsZero(y) THEN FALSE
  ELSE IF IsZero(x) THEN TRUE
  ELSE x.e < y.e \/ (x.e = y.e /\ PLess(x.m, y.m))

\* variant of FloatMax: the smaller of the two
FloatMin(a, b) == IF FloatLess(a, b) THEN a ELSE b

\* Python max(a, b): the first argument unless the second is larger
FloatMax(a, b) == IF FloatLess(a, b) THEN b ELSE a

\* floor(m / 2^s) for a mantissa m and s >= 0, when it is below 2^31
MantissaShifted(m, s) ==
  IF s >= 54 THEN 0
  ELSE IF s >= 27 THEN m[1] \div 2^(s - 27)
  ELSE m[1] * 2^(27 - s) + m[2] \div 2^s

\* variant of IntOfFloat: round(x), halves upwards
RoundOfFloat(x) ==
  IF IsZero(x) THEN 0 ELSE (MantissaShifted(x.m, -x.e - 1) + 1) \div 2

\* int(x) for a float 0 <= x < 2^31: the fraction is dropped
IntOfFloat(x) == IF IsZero(x) THEN 0 ELSE MantissaShifted(x.m, -x.e)

\* the float literal n / d (the double nearest to it), n >= 0, d > 0
Dec(r) == FloatDiv(FloatOfInt(r[1]), FloatOfInt(r[2]))

(***************************************************************************)
(* class GrayColor, class RGBAColor                                        *)
(***************************************************************************)
GrayColor(value) ==
  [class |-> "GrayColor",
   value |-> IntWord(value),
   byte_value |-> <<value>>,
   format |-> "L"]

\* alpha << 24 | red << 16 | green << 8 | blue, each channel in 0..255
RGBAValue(red, green, blue, alpha) == <<alpha, red, green, blue>>

\* RGBAColor._encode: bytes[i] = value >> (i * 8) & 0xff for i in range(4)
_encode(value) == [i \in 1..4 |-> WordByte(value, i - 1)]

RGBAColor(red, green, blue, alpha) ==
  [class |-> "RGBAColor",
   value |-> RGBAValue(red, green, blue, alpha),
   byte_value |-> _encode(RGBAValue(red, green, blue, alpha)),
   format |-> "RGBA"]

(***************************************************************************)
(* class ColorConfiguration                                                *)
(***************************************************************************)
\* variant of SameFormat: the unknown colour's format is not compared
SameFormatOccupiedFree(color_occupied, color_free, color_unknown) ==
  color_occupied.format = color_free.format

SameFormat(color_occupied, color_free, color_unknown) ==
  /\ color_occupied.format = color_free.format
  /\ color_free.format = color_unknown.format

ColorConfiguration(color_occupied, color_free, color_unknown) ==
  LET occupied == IF IsNone(color_occupied)
                  THEN GrayColor(_DEFAULT_COLOR_OCCUPIED) ELSE color_occupied
      free     == IF IsNone(color_free)
                  THEN GrayColor(_DEFAULT_COLOR_FREE) ELSE color_free
      unknown  == IF IsNone(color_unknown)
                  THEN GrayColor(_DEFAULT_COLOR_UNKNOWN) ELSE color_unknown
  IN IF ~SameFormat(occupied, free, unknown)
     THEN Raise("All colors need to have the same format.")
     ELSE [class |-> "ColorConfiguration",
           color_occupied |-> occupied,
           color_free |-> free,
           color_unknown |-> unknown,
           format |-> occupied.format]

(***************************************************************************)
(* _occupancy_to_bytes, _bytes_to_occupancy: generator functions.          *)
(***************************************************************************)
\* the generator a call of a generator function returns: the frame with its
\* two arguments, and how many items of data the loop has taken
Generator(function, data, color_configuration) ==
  [class |-> "generator",
   function |-> function,
   data |-> data,
   color_configuration |-> color_configuration,
   index |-> 0,
   finished |-> FALSE]

\* variant of OccupancyByte: only 100 counts as occupied
OccupancyByteOnly100(value, color_configuration) ==
  IF value = -1 THEN color_configuration.color_unknown.byte_value
  ELSE IF value = 100 THEN color_configuration.color_occupied.byte_value
  ELSE color_configuration.color_free.byte_value

OccupancyByte(value, color_configuration) ==
  IF value = -1 THEN color_configuration.color_unknown.byte_value
  ELSE IF value = 0 THEN color_configuration.color_free.byte_value
  ELSE color_configuration.color_occupied.byte_value

_occupancy_to_bytes(data, color_configuration) ==
  Generator("_occupancy_to_bytes", data, color_configuration)

\* variant of ByteOccupancy: occupied only on an exact match
ByteOccupancyExact(value, color_configuration) ==
  IF value = color_configuration.color_unknown.value THEN -1
  ELSE IF value = color_configuration.color_free.value THEN 0
  ELSE IF value = color_configuration.color_occupied.value THEN 100
  ELSE -1

ByteOccupancy(value, color_configuration) ==
  IF value = color_configuration.color_unknown.value THEN -1
  ELSE IF value = color_configuration.color_free.value THEN 0
  ELSE 100

_bytes_to_occupancy(data, color_configuration) ==
  Generator("_bytes_to_occupancy", data, color_configuration)

\* next(generator): the loop takes the next item of data, if there is one,
\* and yields its element; otherwise the generator is finished for good and
\* yields nothing (StopIteration)
GeneratorNext(generator) ==
  IF generator.finished \/ generator.index >= Len(generator.data)
  THEN [generator |-> [generator EXCEPT !.finished = TRUE], yielded |-> <<>>]
  ELSE LET value == generator.data[generator.index + 1]
           element ==
             IF generator.function = "_occupancy_to_bytes"
             THEN OccupancyByte(value, generator.color_configuration)
             ELSE ByteOccupancy(value, generator.color_configuration)
       IN [generator |-> [generator EXCEPT !.index = @ + 1],
           yielded |-> <<element>>]

\* list(generator), and a for loop over it: every element still to come,
\* the i-th being what the generator yields once i - 1 more items are taken
list(generator) ==
  IF generator.finished THEN <<>>
  ELSE [i \in 1..(Len(generator.data) - generator.index) |->
          GeneratorNext(
            [generator EXCEPT !.index = @ + i - 1]).yielded[1]]

(***************************************************************************)
(* _calculate_scaled_size, _make_scaled_map_metadata, calculate_resolution *)
(***************************************************************************)
_calculate_scaled_size(size, old_resolution, new_resolution) ==
  LET width == size[1]
      height == size[2]
      scaling_factor == FloatDiv(old_resolution, new_resolution)
  IN <<IntOfFloat(FloatMul(FloatOfInt(width), scaling_factor)),
       IntOfFloat(FloatMul(FloatOfInt(height), scaling_factor))>>

\* variant of _make_scaled_map_metadata: the size is copied, not scaled
MetadataWithNewResolution(metadata, resolution) ==
  [map_load_time |-> metadata.map_load_time,
   resolution |-> resolution,
   width |-> metadata.width,
   height |-> metadata.height,
   origin |-> metadata.origin]

_make_scaled_map_metadata(metadata, resolution) ==
  LET size == _calculate_scaled_size(<<metadata.width, metadata.height>>,
                                     metadata.resolution, resolution)
  IN [map_load_time |-> metadata.map_load_time,
      resolution |-> resolution,
      width |-> size[1],
      height |-> size[2],
      origin |-> metadata.origin]

calculate_resolution(goal_size, current_size, current_resolution) ==
  LET goal_width == goal_size[1]
      goal_height == goal_size[2]
      current_width == current_size[1]
      current_height == current_size[2]
      width_resolution ==
        FloatMul(FloatDiv(FloatOfInt(current_width), FloatOfInt(goal_width)),
                 current_resolution)
      height_resolution ==
        FloatMul(FloatDiv(FloatOfInt(current_height), FloatOfInt(goal_height)),
                 current_resolution)
  IN FloatMax(width_resolution, height_resolution)

(***************************************************************************)
(* The raster primitive (PIL.Image), as the spec describes it: a raster is *)
(* width * height pixels in row-major order, each the bytes of one pixel;  *)
(* its native pixel value is the little-endian integer of those bytes.     *)
(* occupancy_grid.py never compares len(data) with width * height: what    *)
(* becomes of a byte string of another length is decided inside the        *)
(* library, outside the source, so the rasters here are built only from    *)
(* byte strings of width * height pixels.                                  *)
(***************************************************************************)
BytesPerPixel(mode) == IF mode = "L" THEN 1 ELSE 4

\* Image.fromstring(mode, size, data), for data of size[1] * size[2] pixels
ImageFromString(mode, size, data) ==
  LET n == BytesPerPixel(mode)
  IN [class |-> "Image",
      mode |-> mode,
      size |-> size,
      pixels |-> [i \in 1..(size[1] * size[2]) |->
                    SubSeq(data, (i - 1) * n + 1, i * n)]]

\* the native value of one pixel
PixelValue(mode, bytes) ==
  IF mode = "L" THEN IntWord(bytes[1])
  ELSE <<bytes[4], bytes[3], bytes[2], bytes[1]>>

\* image.getdata()
ImageGetData(image) ==
  [i \in 1..Len(image.pixels) |-> PixelValue(image.mode, image.pixels[i])]

\* image.resize(size), nearest neighbour: the pixel under the centre of
\* each output pixel
ImageResize(image, size) ==
  LET w == image.size[1]
      h == image.size[2]
      Source(i) ==
        LET x == (i - 1) % size[1]
            y == (i - 1) \div size[1]
            sx == ((2 * x + 1) * w) \div (2 * size[1])
            sy == ((2 * y + 1) * h) \div (2 * size[2])
        IN sy * w + sx + 1
  IN [class |-> "Image",
      mode |-> image.mode,
      size |-> size,
      pixels |-> [i \in 1..(size[1] * size[2]) |-> image.pixels[Source(i)]]]

(***************************************************************************)
(* occupancy_grid_to_image, image_to_occupancy_grid_data                   *)
(***************************************************************************)
\* io.BytesIO: write() each element, then getvalue()
RECURSIVE StreamValue(_)
StreamValue(values) ==
  IF values = <<>> THEN <<>> ELSE Head(values) \o StreamValue(Tail(values))

occupancy_grid_to_image(occupancy_grid, color_configuration) ==
  LET configuration ==
        IF IsNone(color_configuration)
        THEN ColorConfiguration(NoneValue, NoneValue, NoneValue)
        ELSE color_configuration
      data_stream ==
        StreamValue(
          list(_occupancy_to_bytes(occupancy_grid.data, configuration)))
  IN ImageFromString(configuration.format,
                     <<occupancy_grid.info.width, occupancy_grid.info.height>>,
                     data_stream)

\* line 137 replaces whatever configuration was passed by the default one;
\* getdata() is called, the generator is returned as it is created
image_to_occupancy_grid_data(image, color_configuration) ==
  LET configuration == ColorConfiguration(NoneValue, NoneValue, NoneValue)
  IN _bytes_to_occupancy(ImageGetData(image), configuration)

(***************************************************************************)
(* scale_occupancy_grid                                                    *)
(***************************************************************************)
scale_occupancy_grid(occupancy_grid, resolution, color_configuration) ==
  LET image == occupancy_grid_to_image(occupancy_grid, color_configuration)
      new_size ==
        _calculate_scaled_size(
          <<occupancy_grid.info.width, occupancy_grid.info.height>>,
          occupancy_grid.info.resolution, resolution)
      resized_image == ImageResize(image, new_size)
  IN [class |-> "OccupancyGrid",
      header |-> occupancy_grid.header,
      info |-> _make_scaled_map_metadata(occupancy_grid.info, resolution),
      data |-> list(image_to_occupancy_grid_data(resized_image, NoneValue))]

(***************************************************************************)
(* compress_occupancy_grid.  The compressor is a collaborator: a call to   *)
(* it is recorded with its arguments as they are when it is called.        *)
(***************************************************************************)
\* compressed_visualization_transport_msgs.CompressedBitmap()
CompressedBitmap ==
  [class |-> "CompressedBitmap",
   header |-> "",
   origin |-> "",
   resolution_x |-> FloatZero,
   resolution_y |-> FloatZero]

\* variant of compress_occupancy_grid: resolution_y is set after the
\* compressor has been called
CompressThenSetResolutionY(occupancy_grid, resolution, format, color_configuration) ==
  LET image == occupancy_grid_to_image(occupancy_grid, color_configuration)
      new_size ==
        _calculate_scaled_size(
          <<occupancy_grid.info.width, occupancy_grid.info.height>>,
          occupancy_grid.info.resolution, resolution)
      resized_image == ImageResize(image, new_size)
      result == [CompressedBitmap EXCEPT
                   !.header = occupancy_grid.header,
                   !.origin = occupancy_grid.info.origin,
                   !.resolution_x = resolution]
  IN [value |-> [result EXCEPT !.resolution_y = resolution],
      calls |-> <<[image |-> resized_image,
                   format |-> format,
                   message |-> result]>>]

compress_occupancy_grid(occupancy_grid, resolution, format, color_configuration) ==
  LET image == occupancy_grid_to_image(occupancy_grid, color_configuration)
      new_size ==
        _calculate_scaled_size(
          <<occupancy_grid.info.width, occupancy_grid.info.height>>,
          occupancy_grid.info.resolution, resolution)
      resized_image == ImageResize(image, new_size)
      result == [CompressedBitmap EXCEPT
                   !.header = occupancy_grid.header,
                   !.origin = occupancy_grid.info.origin,
                   !.resolution_x = resolution,
                   !.resolution_y = resolution]
  IN [value |-> result,
      calls |-> <<[image |-> resized_image,
                   format |-> format,
                   message |-> result]>>]

(***************************************************************************)
(* The arguments the caller draws.                                         *)
(***************************************************************************)
\* cell values: unknown, free, and three occupied values
Cells == {-1, 0, 1, 50, 100}

\* cell values of the grids that go through the whole pipeline: one of each
\* class, the occupied one not the value decoding gives back
GridCells == {-1, 0, 50}

\* arguments of ColorConfiguration(...)
ColorArgs ==
  {NoneValue}
  \cup {GrayColor(v) : v \in {0, 1, 128, 200}}
  \cup {RGBAColor(0, 0, 0, 255), RGBAColor(255, 255, 255, 255),
        RGBAColor(128, 128, 128, 255)}

\* every configuration the constructor accepts for those arguments
Configurations ==
  {c \in {ColorConfiguration(o, f, u) : o, f, u \in ColorArgs} : ~Raised(c)}

\* the configurations handed to the grid pipelines: none, the default, a
\* custom unknown colour, three custom gray colours, three RGBA colours
PipelineConfigurations ==
  {NoneValue,
   ColorConfiguration(NoneValue, NoneValue, NoneValue),
   ColorConfiguration(NoneValue, NoneValue, GrayColor(200)),
   ColorConfiguration(GrayColor(255), GrayColor(0), GrayColor(128)),
   ColorConfiguration(RGBAColor(0, 0, 0, 255), RGBAColor(255, 255, 255, 255),
                      RGBAColor(128, 128, 128, 255))}

\* native pixel values: those of the colours above and two of no colour
PixelValues ==
  {c.value : c \in ColorArgs \ {NoneValue}}
  \cup {IntWord(7), RGBAValue(1, 2, 3, 4)}

\* what the caller writes into the data or the configuration of a generator
\* it holds
WrittenCells == {-1}

WrittenPixels == {IntWord(128)}

WrittenColors == {GrayColor(9)}

\* the bytes of one pixel of a raster of the given mode
PixelBytes(mode) ==
  {c.byte_value : c \in {x \in ColorArgs \ {NoneValue} : x.format = mode}}

\* rasters of up to MaxPixels pixels
Rasters ==
  UNION {IF w * h > MaxPixels THEN {}
         ELSE {[class |-> "Image", mode |-> m, size |-> <<w, h>>,
                pixels |-> p] : p \in [1..(w * h) -> PixelBytes(m)]} :
           m \in {"L", "RGBA"}, w \in 0..MaxDim, h \in 0..MaxDim}

\* resolutions, in metres per cell, as the caller writes them: 0.05, 0.1,
\* 0.2, 0.3, 0.4, 0.7, 1.0, 49.0
Literals ==
  {<<1, 20>>, <<1, 10>>, <<1, 5>>, <<3, 10>>, <<2, 5>>, <<7, 10>>,
   <<1, 1>>, <<49, 1>>}

\* each literal with the float it denotes
LiteralFloats == {<<r, Dec(r)>> : r \in Literals}

Resolutions == {p[2] : p \in LiteralFloats}

GridResolutions == {Dec(<<1, 10>>), Dec(<<1, 5>>), Dec(<<3, 10>>)}

TargetResolutions ==
  {Dec(<<1, 20>>), Dec(<<1, 10>>), Dec(<<1, 5>>), Dec(<<2, 5>>)}

\* sizes for the resolution arithmetic alone
Sizes == {0, 1, 2, 3, 49, 50, 100, 101}

Headers == {"map"}

SeqsUpTo(S, n) == UNION {[1..k -> S] : k \in 0..n}

\* occupancy grids
Grids ==
  {[header |-> hd,
    info |-> [map_load_time |-> "t0", resolution |-> r,
              width |-> w, height |-> h, origin |-> "pose"],
    data |-> d] :
     hd \in Headers, w \in 0..MaxDim, h \in 0..MaxDim,
     r \in GridResolutions,
     d \in SeqsUpTo(GridCells, MaxCells)}

WellFormed(grid) == Len(grid.data) = grid.info.width * grid.info.height

\* the grids the caller passes: the data is as long as the grid has cells
GridInputs ==
  {g \in Grids :
     /\ g.info.width * g.info.height <= MaxCells
     /\ WellFormed(g)}

\* the metadata of those grids
Metadata == {g.info : g \in GridInputs}

(***************************************************************************)
(* The caller.                                                             *)
(***************************************************************************)
Init ==
  /\ pc = "idle"
  /\ op = "none"
  /\ args = NoneValue
  /\ ret = NoneValue
  /\ compressor = <<>>
  /\ yielded = <<>>
  /\ writes = 0

Call(name, arguments, value) ==
  /\ pc' = "returned"
  /\ op' = name
  /\ args' = arguments
  /\ ret' = value
  /\ yielded' = <<>>
  /\ writes' = 0

CallColorConfiguration ==
  /\ pc = "idle"
  /\ \E o, f, u \in ColorArgs :
       /\ Call("ColorConfiguration",
               [color_occupied |-> o, color_free |-> f, color_unknown |-> u],
               ColorConfiguration(o, f, u))
       /\ UNCHANGED compressor

CallOccupancyToBytes ==
  /\ pc = "idle"
  /\ \E d \in SeqsUpTo(Cells, MaxPixels), c \in Configurations :
       /\ Call("_occupancy_to_bytes",
               [data |-> d, color_configuration |-> c],
               _occupancy_to_bytes(d, c))
       /\ UNCHANGED compressor

CallBytesToOccupancy ==
  /\ pc = "idle"
  /\ \E d \in SeqsUpTo(PixelValues, MaxPixels), c \in Configurations :
       /\ Call("_bytes_to_occupancy",
               [data |-> d, color_configuration |-> c],
               _bytes_to_occupancy(d, c))
       /\ UNCHANGED compressor

CallCalculateScaledSize ==
  /\ pc = "idle"
  /\ \E w, h \in Sizes, old, new \in Resolutions :
       /\ Call("_calculate_scaled_size",
               [size |-> <<w, h>>, old_resolution |-> old,
                new_resolution |-> new],
               _calculate_scaled_size(<<w, h>>, old, new))
       /\ UNCHANGED compressor

CallMakeScaledMapMetadata ==
  /\ pc = "idle"
  /\ \E metadata \in Metadata, r \in Resolutions :
       /\ Call("_make_scaled_map_metadata",
               [metadata |-> metadata, resolution |-> r],
               _make_scaled_map_metadata(metadata, r))
       /\ UNCHANGED compressor

CallCalculateResolution ==
  /\ pc = "idle"
  /\ \E gw, gh, cw, ch \in Sizes \ {0}, r \in GridResolutions :
       /\ Call("calculate_resolution",
               [goal_size |-> <<gw, gh>>, current_size |-> <<cw, ch>>,
                current_resolution |-> r],
               calculate_resolution(<<gw, gh>>, <<cw, ch>>, r))
       /\ UNCHANGED compressor

CallOccupancyGridToImage ==
  /\ pc = "idle"
  /\ \E c \in PipelineConfigurations, g \in GridInputs :
       /\ Call("occupancy_grid_to_image",
               [occupancy_grid |-> g, color_configuration |-> c],
               occupancy_grid_to_image(g, c))
       /\ UNCHANGED compressor

\* the caller encodes a raster: any raster, or the one it has just decoded,
\* with the configuration it decoded it with
CallImageToOccupancyGridData ==
  \/ /\ pc = "idle"
     /\ \E image \in Rasters, c \in PipelineConfigurations :
          Call("image_to_occupancy_grid_data",
               [image |-> image, color_configuration |-> c],
               image_to_occupancy_grid_data(image, c))
     /\ UNCHANGED compressor
  \/ /\ pc = "returned"
     /\ op = "occupancy_grid_to_image"
     /\ Call("image_to_occupancy_grid_data",
             [image |-> ret, color_configuration |-> args.color_configuration,
              decoded |-> args],
             image_to_occupancy_grid_data(ret, args.color_configuration))
     /\ UNCHANGED compressor

\* the call that has returned is one that returns a generator
HoldsGenerator ==
  /\ pc = "returned"
  /\ op \in {"_occupancy_to_bytes", "_bytes_to_occupancy",
             "image_to_occupancy_grid_data"}

\* the caller asks the generator it holds for its next element
ResumeGenerator ==
  /\ HoldsGenerator
  /\ ~ret.finished
  /\ LET step == GeneratorNext(ret)
     IN /\ ret' = step.generator
        /\ yielded' = yielded \o step.yielded
  /\ UNCHANGED <<pc, op, args, compressor, writes>>

\* the caller assigns to an item of the list, or to a pixel of the raster,
\* the generator reads
CallerWritesData ==
  /\ HoldsGenerator
  /\ writes < MaxWrites
  /\ \E i \in 1..Len(ret.data),
        v \in IF ret.function = "_occupancy_to_bytes"
              THEN WrittenCells ELSE WrittenPixels :
       /\ ret.data[i] # v
       /\ ret' = [ret EXCEPT !.data[i] = v]
  /\ writes' = writes + 1
  /\ UNCHANGED <<pc, op, args, compressor, yielded>>

\* the caller assigns to a colour of the configuration it passed; the one
\* image_to_occupancy_grid_data makes is out of its reach
CallerWritesColor ==
  /\ HoldsGenerator
  /\ op # "image_to_occupancy_grid_data"
  /\ writes < MaxWrites
  /\ \E slot \in {"color_occupied", "color_free", "color_unknown"},
        color \in WrittenColors :
       /\ ret.color_configuration[slot] # color
       /\ ret' = [ret EXCEPT !.color_configuration[slot] = color]
  /\ writes' = writes + 1
  /\ UNCHANGED <<pc, op, args, compressor, yielded>>

CallScaleOccupancyGrid ==
  /\ pc = "idle"
  /\ \E g \in GridInputs, r \in TargetResolutions,
        c \in PipelineConfigurations :
       /\ Call("scale_occupancy_grid",
               [occupancy_grid |-> g, resolution |-> r,
                color_configuration |-> c],
               scale_occupancy_grid(g, r, c))
       /\ UNCHANGED compressor

CallCompressOccupancyGrid ==
  /\ pc = "idle"
  /\ \E g \in GridInputs, r \in TargetResolutions,
        c \in PipelineConfigurations :
       LET done == compress_occupancy_grid(g, r, "png", c)
       IN /\ Call("compress_occupancy_grid",
                  [occupancy_grid |-> g, resolution |-> r, format |-> "png",
                   color_configuration |-> c],
                  done.value)
          /\ compressor' = compressor \o done.calls

Return ==
  /\ pc = "returned"
  /\ pc' = "idle"
  /\ op' = "none"
  /\ args' = NoneValue
  /\ ret' = NoneValue
  /\ compressor' = <<>>
  /\ yielded' = <<>>
  /\ writes' = 0

Next ==
  \/ CallColorConfiguration
  \/ CallOccupancyToBytes
  \/ CallBytesToOccupancy
  \/ CallCalculateScaledSize
  \/ CallMakeScaledMapMetadata
  \/ CallCalculateResolution
  \/ CallOccupancyGridToImage
  \/ CallImageToOccupancyGridData
  \/ ResumeGenerator
  \/ CallerWritesData
  \/ CallerWritesColor
  \/ CallScaleOccupancyGrid
  \/ CallCompressOccupancyGrid
  \/ Return

Spec == Init /\ [][Next]_vars

(***************************************************************************)
(* Vocabulary of the properties.                                           *)
(***************************************************************************)
\* the configuration a pipeline decodes with: the caller's, else the default
Effective(c) ==
  IF IsNone(c) THEN ColorConfiguration(NoneValue, NoneValue, NoneValue) ELSE c

\* the colour a configuration gives the class of a cell value
ClassColor(v, c) ==
  IF v = -1 THEN c.color_unknown
  ELSE IF v = 0 THEN c.color_free
  ELSE c.color_occupied

\* the cell value a class decodes to
Canonical(v) == IF v = -1 THEN -1 ELSE IF v = 0 THEN 0 ELSE 100

\* the literal a resolution was written as
Literal(x) == (CHOOSE p \in LiteralFloats : p[2] = x)[1]

\* n = floor(w * old / new) for resolutions old and new given as literals,
\* by the inequalities that define the floor
IsFloorOfScaled(n, w, old, new) ==
  /\ n * (old[2] * new[1]) <= w * (old[1] * new[2])
  /\ w * (old[1] * new[2]) < (n + 1) * (old[2] * new[1])

\* old / new is a power of two, for resolutions given as literals
IsPowerOfTwoRatio(old, new) ==
  \E k \in 0..12 :
    \/ old[1] * new[2] * 2^k = old[2] * new[1]
    \/ old[1] * new[2] = old[2] * new[1] * 2^k

\* scaled[i] <= size[i] * (old / new) < scaled[i] + 1 in float arithmetic,
\* for the width and the height
IsTruncOfScaled(scaled, size, old, new) ==
  LET factor == FloatDiv(old, new)
  IN \A i \in {1, 2} :
       LET product == FloatMul(FloatOfInt(size[i]), factor)
       IN /\ ~FloatLess(product, FloatOfInt(scaled[i]))
          /\ FloatLess(product, FloatOfInt(scaled[i] + 1))

PairwiseDistinct(c) ==
  /\ c.color_unknown.value # c.color_free.value
  /\ c.color_unknown.value # c.color_occupied.value
  /\ c.color_free.value # c.color_occupied.value

\* C1: encoding the raster decoded from grid g under configuration c, with
\* the same c and no resize, gives back g.data: those are the elements of
\* the generator once it is exhausted, nothing having been written meanwhile.
C1_RoundTrip ==
  (/\ op = "image_to_occupancy_grid_data"
   /\ "decoded" \in DOMAIN args
   /\ ~IsNone(args.color_configuration)
   /\ args.color_configuration = args.decoded.color_configuration
   /\ ret.finished
   /\ writes = 0)
  => yielded = args.decoded.occupancy_grid.data

\* C2: the grid scale_occupancy_grid returns has as many cells as its
\* metadata says, width * height, and that width and height are the input
\* dimensions times the float old resolution / new resolution, truncated.
C2_DataLength ==
  (op = "scale_occupancy_grid")
  => LET info == args.occupancy_grid.info
     IN /\ Len(ret.data) = ret.info.width * ret.info.height
        /\ IsTruncOfScaled(<<ret.info.width, ret.info.height>>,
                           <<info.width, info.height>>,
                           info.resolution, args.resolution)

\* C2 witness: a 2 x 1 grid scaled by one half comes back 1 x 0, empty.
C2_Witness ==
  /\ op = "scale_occupancy_grid"
  /\ args.occupancy_grid.info.width = 2
  /\ args.occupancy_grid.info.height = 1
  /\ ret.info.width = 1
  /\ ret.info.height = 0
  /\ ret.data = <<>>

\* C3: scale_occupancy_grid re-encodes the resized raster with the caller's
\* configuration: a pixel equal to its unknown.value becomes -1, one equal to
\* its free.value becomes 0, every other pixel becomes 100.
C3_ReencodeWithCallerConfiguration ==
  (/\ op = "scale_occupancy_grid"
   /\ ~IsNone(args.color_configuration))
  => LET c == args.color_configuration
         g == args.occupancy_grid
         resized ==
           ImageGetData(
             ImageResize(occupancy_grid_to_image(g, c),
                         <<ret.info.width, ret.info.height>>))
     IN /\ Len(ret.data) = Len(resized)
        /\ \A i \in 1..Len(resized) :
             ret.data[i] = IF resized[i] = c.color_unknown.value THEN -1
                           ELSE IF resized[i] = c.color_free.value THEN 0
                           ELSE 100

\* C4: calculate_resolution returns the larger of the width-fitting and the
\* height-fitting resolution, each computed in floats as (current / goal) *
\* current resolution, and the current size scaled to it exceeds the goal
\* size on neither axis; goal (50,100), current (100,100) at 0.1 gives 0.2.
C4_ResolutionFits ==
  (op = "calculate_resolution")
  => LET cr == args.current_resolution
         w == FloatMul(FloatDiv(FloatOfInt(args.current_size[1]),
                                FloatOfInt(args.goal_size[1])), cr)
         h == FloatMul(FloatDiv(FloatOfInt(args.current_size[2]),
                                FloatOfInt(args.goal_size[2])), cr)
         scaled == _calculate_scaled_size(args.current_size, cr, ret)
     IN /\ ~FloatLess(ret, w)
        /\ ~FloatLess(ret, h)
        /\ ret \in {w, h}
        /\ scaled[1] <= args.goal_size[1]
        /\ scaled[2] <= args.goal_size[2]
        /\ (/\ args.goal_size = <<50, 100>>
            /\ args.current_size = <<100, 100>>
            /\ cr = Dec(<<1, 10>>)) => ret = Dec(<<1, 5>>)

\* C4 witness: the call of the example has returned.
C4_Witness ==
  /\ op = "calculate_resolution"
  /\ args.goal_size = <<50, 100>>
  /\ args.current_size = <<100, 100>>
  /\ args.current_resolution = Dec(<<1, 10>>)
  /\ ret = Dec(<<1, 5>>)

\* C5: ColorConfiguration fills each unset slot with its gray default
\* (occupied 0, free 1, unknown 128), fails exactly when the three resulting
\* formats are not all the same, and a constructed configuration carries
\* that one format.
C5_FormatMismatchRejected ==
  (op = "ColorConfiguration")
  => LET o == IF IsNone(args.color_occupied)
              THEN GrayColor(0) ELSE args.color_occupied
         f == IF IsNone(args.color_free)
              THEN GrayColor(1) ELSE args.color_free
         u == IF IsNone(args.color_unknown)
              THEN GrayColor(128) ELSE args.color_unknown
     IN /\ Raised(ret) <=> Cardinality({o.format, f.format, u.format}) # 1
        /\ ~Raised(ret) =>
             /\ ret.color_occupied = o
             /\ ret.color_free = f
             /\ ret.color_unknown = u
             /\ ret.format = o.format
             /\ ret.format = f.format
             /\ ret.format = u.format

\* C5 witness: occupied RGBA(0,0,0,255) with free Gray(1) was rejected.
C5_Witness ==
  /\ op = "ColorConfiguration"
  /\ args.color_occupied = RGBAColor(0, 0, 0, 255)
  /\ args.color_free = GrayColor(1)
  /\ IsNone(args.color_unknown)
  /\ Raised(ret)

\* C6 as stated: for every accepted configuration c and cell value v,
\* _occupancy_to_bytes([v], c) yields the one byte_value of v's class, and
\* decoding that encoding's pixel value under c yields -1, 0 or 100
\* respectively.
C6_AsStated ==
  (/\ op = "_occupancy_to_bytes"
   /\ Len(args.data) = 1
   /\ ret.finished
   /\ writes = 0)
  => LET c == args.color_configuration
         v == args.data[1]
     IN /\ Len(yielded) = 1
        /\ yielded[1] = ClassColor(v, c).byte_value
        /\ list(_bytes_to_occupancy(<<PixelValue(c.format, yielded[1])>>, c))
             = <<Canonical(v)>>

\* C6 amended: the encoding is as stated for every accepted configuration;
\* the decode yields -1, 0 or 100 respectively when the configuration's three
\* pixel values are pairwise distinct, and for any configuration it yields -1
\* when the pixel equals unknown.value, else 0 when it equals free.value,
\* else 100.  The elements are those of the exhausted generator when nothing
\* was written to its data or configuration after the call.
C6_ValueMapping ==
  (/\ op = "_occupancy_to_bytes"
   /\ Len(args.data) = 1
   /\ ret.finished
   /\ writes = 0)
  => LET c == args.color_configuration
         v == args.data[1]
         pixel == PixelValue(c.format, yielded[1])
         back == list(_bytes_to_occupancy(<<pixel>>, c))
     IN /\ Len(yielded) = 1
        /\ yielded[1] = ClassColor(v, c).byte_value
        /\ pixel = ClassColor(v, c).value
        /\ PairwiseDistinct(c) => back = <<Canonical(v)>>
        /\ back = <<IF pixel = c.color_unknown.value THEN -1
                    ELSE IF pixel = c.color_free.value THEN 0
                    ELSE 100>>

\* C6 witness: cell 50 under three distinct RGBA colours gave the occupied
\* bytes and nothing more.
C6_Witness ==
  /\ op = "_occupancy_to_bytes"
  /\ args.data = <<50>>
  /\ args.color_configuration.format = "RGBA"
  /\ PairwiseDistinct(args.color_configuration)
  /\ ret.finished
  /\ writes = 0
  /\ yielded = <<args.color_configuration.color_occupied.byte_value>>

\* C7, as stated: _calculate_scaled_size((w,h), r_old, r_new) is
\* (floor(w * r_old / r_new), floor(h * r_old / r_new)) for all sizes and
\* positive resolutions, never rounded up: (100,100) and (101,101) from 0.1
\* to 0.2 both give (50,50).
C7_AsStated ==
  (op = "_calculate_scaled_size")
  => LET old == Literal(args.old_resolution)
         new == Literal(args.new_resolution)
     IN /\ IsFloorOfScaled(ret[1], args.size[1], old, new)
        /\ IsFloorOfScaled(ret[2], args.size[2], old, new)
        /\ (/\ args.size \in {<<100, 100>>, <<101, 101>>}
            /\ old = <<1, 10>>
            /\ new = <<1, 5>>) => ret = <<50, 50>>

\* C7, amended: _calculate_scaled_size((w,h), r_old, r_new) is the float
\* product w * (r_old / r_new), and the same for h, with the fraction
\* dropped and never rounded up; that is floor(w * r_old / r_new) or one
\* away from it, and exactly the floor when r_old / r_new is a power of
\* two: (100,100) and (101,101) from 0.1 to 0.2 both give (50,50).
C7_ScaledSizeTruncates ==
  (op = "_calculate_scaled_size")
  => LET old == Literal(args.old_resolution)
         new == Literal(args.new_resolution)
     IN \A i \in {1, 2} :
          /\ IsTruncOfScaled(ret, args.size,
                             args.old_resolution, args.new_resolution)
          /\ \E n \in {ret[i] - 1, ret[i], ret[i] + 1} :
               IsFloorOfScaled(n, args.size[i], old, new)
          /\ IsPowerOfTwoRatio(old, new)
               => IsFloorOfScaled(ret[i], args.size[i], old, new)
          /\ (/\ args.size \in {<<100, 100>>, <<101, 101>>}
              /\ old = <<1, 10>>
              /\ new = <<1, 5>>) => ret = <<50, 50>>

\* C7 witness: (101,101) from 0.1 to 0.2 returned (50,50).
C7_Witness ==
  /\ op = "_calculate_scaled_size"
  /\ args.size = <<101, 101>>
  /\ args.old_resolution = Dec(<<1, 10>>)
  /\ args.new_resolution = Dec(<<1, 5>>)
  /\ ret = <<50, 50>>

\* C8: compress_occupancy_grid calls the compressor exactly once, with the
\* format it was given, a raster in the caller's (else the default)
\* configuration's format and colours whose size is the scaled size of the
\* grid, and a message that already has header = grid.header, origin =
\* grid.info.origin and resolution_x = resolution_y = the resolution asked.
C8_CompressorCall ==
  (op = "compress_occupancy_grid")
  => LET g == args.occupancy_grid
         c == Effective(args.color_configuration)
         same == g.info.resolution = args.resolution
     IN /\ Len(compressor) = 1
        /\ LET call == compressor[1]
           IN /\ call.format = args.format
              /\ call.image.mode = c.format
              /\ IsTruncOfScaled(call.image.size,
                                 <<g.info.width, g.info.height>>,
                                 g.info.resolution, args.resolution)
              /\ Len(call.image.pixels)
                   = call.image.size[1] * call.image.size[2]
              /\ \A i \in 1..Len(call.image.pixels) :
                   \E j \in 1..Len(g.data) :
                     /\ same => j = i
                     /\ call.image.pixels[i]
                          = ClassColor(g.data[j], c).byte_value
              /\ call.message.header = g.header
              /\ call.message.origin = g.info.origin
              /\ call.message.resolution_x = args.resolution
              /\ call.message.resolution_y = args.resolution
              /\ ret = call.message

\* C8 witness: a 2 x 2 grid compressed at half the resolution under RGBA
\* colours reached the compressor as one RGBA pixel.
C8_Witness ==
  /\ op = "compress_occupancy_grid"
  /\ args.occupancy_grid.info.width = 2
  /\ args.occupancy_grid.info.height = 2
  /\ ~IsNone(args.color_configuration)
  /\ args.color_configuration.format = "RGBA"
  /\ Len(compressor) = 1
  /\ compressor[1].image.size = <<1, 1>>
  /\ compressor[1].image.mode = "RGBA"

\* C10: _bytes_to_occupancy only ever yields -1, 0 or 100, one output per
\* pixel, in order: -1 for a pixel equal to unknown.value, else 0 for one
\* equal to free.value, else 100 whether or not the pixel equals
\* occupied.value (of the pixels and the configuration as passed, when the
\* caller has written to neither); so every cell of a grid
\* scale_occupancy_grid returns is -1, 0 or 100.
C10_DecodeTotal ==
  /\ (op = "_bytes_to_occupancy")
     => LET c == args.color_configuration
        IN /\ \A i \in 1..Len(yielded) : yielded[i] \in {-1, 0, 100}
           /\ Len(yielded) = ret.index
           /\ ret.finished => Len(yielded) = Len(args.data)
           /\ writes = 0 =>
                \A i \in 1..Len(yielded) :
                  /\ yielded[i] = -1 <=> args.data[i] = c.color_unknown.value
                  /\ yielded[i] = 0 <=>
                       /\ args.data[i] # c.color_unknown.value
                       /\ args.data[i] = c.color_free.value
  /\ (op = "scale_occupancy_grid")
     => \A i \in 1..Len(ret.data) : ret.data[i] \in {-1, 0, 100}

\* C10 witness: a pixel that is none of the configuration's three colours
\* decoded to 100, the only element.
C10_Witness ==
  /\ op = "_bytes_to_occupancy"
  /\ Len(args.data) = 1
  /\ args.data[1] \notin {args.color_configuration.color_unknown.value,
                          args.color_configuration.color_free.value,
                          args.color_configuration.color_occupied.value}
  /\ ret.finished
  /\ writes = 0
  /\ yielded = <<100>>

====
